---------------------------- MODULE Spec2Model ----------------------------
(***************************************************************************)
(* A model of pastila-cli: the locator codec and the content transform of  *)
(* pkg/pastila (Service.Read, Service.Write), the backend table they talk  *)
(* to (pkg/chtest/table.ddl.sql), and the edit session of cmd/pastila      *)
(* (editPaste, watchFile).                                                 *)
(*                                                                         *)
(* Go strings and byte slices are sequences of bytes 0..255; text is       *)
(* written as its ASCII codes.  A nil slice or nil pointer is Nil, which   *)
(* is distinct from the empty sequence << >> (an empty, non-nil slice).    *)
(***************************************************************************)
EXTENDS Integers, Sequences, FiniteSets, TLC

VARIABLES
    \* ---- the backend and the last Service call (service specification)
    rows,        \* the backend's table `data`, in insertion (time) order
    call,        \* the last Service.Read / Service.Write call and its outcome
    \* ---- the locator codec (codec specification)
    codec,       \* the last locator built and parsed
    \* ---- the edit session (edit specification)
    file,        \* the temporary file: content, size, modification time
    clock,       \* the file system's clock
    stat,        \* watchFile's last observed snapshot (size, mtime)
    paste,       \* editPaste's variable `paste`: the current paste, or Nil
    editor,      \* the editor process: "running" | "exited" (code 0) | "failed"
    mainPc,      \* the main flow of editPaste
    pollPc,      \* the polling goroutine of watchFile
    waitPc,      \* the goroutine of editPaste that waits for the editor
    cancelled,   \* fileWatchCtx has been cancelled
    poll,        \* what the last poll iteration observed and did
    save,        \* the last save the change handler performed
    nsaves,      \* how many saves the session performed
    lastSaved,   \* history: the original paste, then the last successful save
    result,      \* what editPaste returned
    original,    \* history: the paste editPaste was called with
    printWriter, \* the global printWriter: "printBuffer" | "os.Stdout"
    printBuffer, \* editPaste's printBuffer: nil or the buffered messages
    stdout,      \* the messages written to the process's standard output
    prompted,    \* history: the quick-exit prompt: "no" | "pending" | "pressed"
    edited,      \* history: the editor's rewrites: "never" | "once" | "other"
    processState,\* cmd.ProcessState as the main flow reads it: "nil" | "exit0" | "exit1"
    inflight,    \* the printf of the polling goroutine that is under way
    flushes,     \* history: how many times io.Copy wrote the buffer out
    tempFile     \* the temporary file: "none" | "open" | "removed"

vars == <<rows, call, codec, file, clock, stat, paste, editor, mainPc, pollPc,
          waitPc, cancelled, poll, save, nsaves, lastSaved, result, original,
          printWriter, printBuffer, stdout, prompted, edited, processState,
          inflight, flushes, tempFile>>

storeVars == <<rows, call, codec>>

pollVars == <<poll, save, nsaves, lastSaved>>

printVars == <<printWriter, printBuffer, stdout>>

\* a nil byte slice: no byte is -1, so Nil differs from every slice, << >> included
Nil == << -1 >>

\* a nil error
NoErr == "nil"

\* a nil *Paste
NilPaste == [nil |-> TRUE]

(***************************************************************************)
(* Bytes, sequences.                                                       *)
(***************************************************************************)
Byte == 0..255

RECURSIVE Xor(_, _)
\* a XOR b on non-negative integers (cipher.Stream.XORKeyStream works bytewise)
Xor(a, b) ==
    IF a = 0 THEN b
    ELSE IF b = 0 THEN a
    ELSE (((a % 2) + (b % 2)) % 2) + 2 * Xor(a \div 2, b \div 2)

Repeat(b, n) == [i \in 1..n |-> b]

RECURSIVE Concat(_)
\* the concatenation of a sequence of sequences
Concat(ss) == IF ss = << >> THEN << >> ELSE Head(ss) \o Concat(Tail(ss))

Slice(s, i, j) == IF i > j THEN << >> ELSE SubSeq(s, i, j)

(***************************************************************************)
(* encoding/hex: lower-case, two digits per byte.                          *)
(***************************************************************************)
HexDigit(n) == IF n < 10 THEN 48 + n ELSE 97 + (n - 10)

\* [a-f0-9] of QueryMatchRegex
IsHexChar(c) == (c >= 48 /\ c <= 57) \/ (c >= 97 /\ c <= 102)

\* hex.DecodeString also takes A-F
IsAnyHexChar(c) == IsHexChar(c) \/ (c >= 65 /\ c <= 70)

HexVal(c) ==
    IF c >= 48 /\ c <= 57 THEN c - 48
    ELSE IF c >= 97 /\ c <= 102 THEN c - 97 + 10
    ELSE c - 65 + 10

\* hex.EncodeToString, and fmt's %x of a byte slice; nil encodes as ""
HexEncode(b) ==
    IF b = Nil THEN << >>
    ELSE [i \in 1..(2 * Len(b)) |->
            IF i % 2 = 1 THEN HexDigit(b[(i + 1) \div 2] \div 16)
                         ELSE HexDigit(b[i \div 2] % 16)]

\* hex.DecodeString: an odd length or a non-hex character is an error
HexDecode(s) ==
    IF Len(s) % 2 = 1 \/ \E i \in 1..Len(s) : ~IsAnyHexChar(s[i])
    THEN [err |-> "hex", bytes |-> Nil]
    ELSE [err |-> NoErr,
          bytes |-> [i \in 1..(Len(s) \div 2) |->
                        16 * HexVal(s[2 * i - 1]) + HexVal(s[2 * i])]]


(***************************************************************************)
(* encoding/base64, StdEncoding (padded, '\r' and '\n' ignored).           *)
(***************************************************************************)
\* the standard alphabet: A-Z a-z 0-9 + /
B64Char(v) ==
    IF v < 26 THEN 65 + v
    ELSE IF v < 52 THEN 97 + (v - 26)
    ELSE IF v < 62 THEN 48 + (v - 52)
    ELSE IF v = 62 THEN 43 ELSE 47

IsB64Char(c) ==
    \/ (c >= 65 /\ c <= 90) \/ (c >= 97 /\ c <= 122) \/ (c >= 48 /\ c <= 57)
    \/ c = 43 \/ c = 47

B64Val(c) ==
    IF c >= 65 /\ c <= 90 THEN c - 65
    ELSE IF c >= 97 /\ c <= 122 THEN c - 97 + 26
    ELSE IF c >= 48 /\ c <= 57 THEN c - 48 + 52
    ELSE IF c = 43 THEN 62 ELSE 63

\* the byte of b at i, or 0 past its end
ByteAt(b, i) == IF i <= Len(b) THEN b[i] ELSE 0

\* the four characters that encode the 3-byte group starting at byte i
B64Group(b, i) ==
    LET b1 == ByteAt(b, i)
        b2 == ByteAt(b, i + 1)
        b3 == ByteAt(b, i + 2)
        left == Len(b) - i + 1
    IN  << B64Char(b1 \div 4),
           B64Char((b1 % 4) * 16 + (b2 \div 16)),
           IF left >= 2 THEN B64Char((b2 % 16) * 4 + (b3 \div 64)) ELSE 61,
           IF left >= 3 THEN B64Char(b3 % 64) ELSE 61 >>

\* base64.StdEncoding.EncodeToString
Base64Encode(b) ==
    Concat([g \in 1..((Len(b) + 2) \div 3) |-> B64Group(b, 3 * g - 2)])

\* the decoder skips '\r' and '\n'
StripNewlines(s) == SelectSeq(s, LAMBDA c : c # 10 /\ c # 13)

\* the number of '=' that end s (0, 1 or 2 count; more is malformed)
B64Padding(s) ==
    IF Len(s) >= 1 /\ s[Len(s)] = 61
    THEN (IF Len(s) >= 2 /\ s[Len(s) - 1] = 61 THEN 2 ELSE 1)
    ELSE 0

\* the bytes of the 4-character quantum starting at character i (pad = its '=' count)
B64Quantum(s, i, pad) ==
    LET v1 == B64Val(s[i])
        v2 == B64Val(s[i + 1])
        v3 == IF pad >= 2 THEN 0 ELSE B64Val(s[i + 2])
        v4 == IF pad >= 1 THEN 0 ELSE B64Val(s[i + 3])
        all == << v1 * 4 + (v2 \div 16), (v2 % 16) * 16 + (v3 \div 4), (v3 % 4) * 64 + v4 >>
    IN  SubSeq(all, 1, 3 - pad)

\* base64.StdEncoding.DecodeString: every quantum is four characters; '=' may
\* only end the last one, once or twice; the result is never nil
Base64Decode(str) ==
    LET s == StripNewlines(str)
        n == Len(s)
        pad == B64Padding(s)
        ok == /\ n % 4 = 0
              /\ \A i \in 1..(n - pad) : IsB64Char(s[i])
    IN  IF ~ok THEN [err |-> "base64", bytes |-> Nil]
        ELSE [err |-> NoErr,
              bytes |-> Concat([q \in 1..(n \div 4) |->
                          B64Quantum(s, 4 * q - 3, IF q = n \div 4 THEN pad ELSE 0)])]


(***************************************************************************)
(* encoding/json on a string value.  The encoder coerces the string to     *)
(* valid UTF-8: each byte that starts no well-formed UTF-8 sequence is     *)
(* written as U+FFFD (EF BF BD); escaping is undone by the reader, so only *)
(* the coercion changes what arrives.                                      *)
(***************************************************************************)
IsCont(b, i) == i <= Len(b) /\ b[i] >= 128 /\ b[i] <= 191

\* utf8.DecodeRune at byte i: the length of the well-formed sequence there, or 0
RuneLen(b, i) ==
    LET c == b[i]
        c2 == ByteAt(b, i + 1)
    IN  IF c < 128 THEN 1
        ELSE IF c >= 194 /\ c <= 223 THEN (IF IsCont(b, i + 1) THEN 2 ELSE 0)
        ELSE IF c >= 224 /\ c <= 239
             THEN (IF /\ IsCont(b, i + 1) /\ IsCont(b, i + 2)
                      /\ (c = 224 => c2 >= 160)
                      /\ (c = 237 => c2 <= 159)
                   THEN 3 ELSE 0)
        ELSE IF c >= 240 /\ c <= 244
             THEN (IF /\ IsCont(b, i + 1) /\ IsCont(b, i + 2) /\ IsCont(b, i + 3)
                      /\ (c = 240 => c2 >= 144)
                      /\ (c = 244 => c2 <= 143)
                   THEN 4 ELSE 0)
        ELSE 0

RECURSIVE CoerceFrom(_, _)
CoerceFrom(b, i) ==
    IF i > Len(b) THEN << >>
    ELSE LET n == RuneLen(b, i)
         IN  IF n = 0 THEN << 239, 191, 189 >> \o CoerceFrom(b, i + 1)
             ELSE SubSeq(b, i, i + n - 1) \o CoerceFrom(b, i + n)

\* the string as a JSON writer (Go's encoder, ClickHouse's JSONEachRow) passes it on
JSONString(b) == CoerceFrom(b, 1)

(***************************************************************************)
(* The two library primitives, which the repository only calls.  They are  *)
(* kept as functions of their input bytes with the properties the callers  *)
(* rely on: the hash is deterministic and collision-free on contents of up *)
(* to 15 bytes; the CTR key stream depends on the key and the position     *)
(* only (the IV is all zero), so XOR with it is its own inverse.           *)
(***************************************************************************)
\* siphash128.SipHash128: 16 bytes
SipHash128(b) ==
    [j \in 1..16 |->
        IF j = 16 THEN Len(b) % 256
        ELSE IF j <= Len(b) THEN (b[j] + 7 * j + 1) % 256
        ELSE (7 * j) % 256]

\* a cipher built from any key that is not empty
NewCipherAnyKey(key) == Len(key) > 0

\* aes.NewCipher: the key must be 16, 24 or 32 bytes (aes.KeySizeError otherwise)
NewCipherOK(key) == Len(key) \in {16, 24, 32}

\* byte i of the key stream of cipher.NewCTR(block, iv) with the all-zero iv
KeyStream(key, i) == (key[((i - 1) % Len(key)) + 1] + 31 * i + 7) % 256

\* stream.XORKeyStream(dst, src)
XORKeyStream(key, src) == [i \in 1..Len(src) |-> Xor(src[i], KeyStream(key, i))]

(***************************************************************************)
(* QueryMatchRegex = (?m)([a-f0-9]+)/([a-f0-9]+)(?:#(.+))?$ and            *)
(* FindStringSubmatch: the leftmost match, each repetition greedy.         *)
(***************************************************************************)
\* '.' matches every character but '\n'
IsDot(c) == c # 10

\* the least element of a non-empty set of integers
Min(S) == CHOOSE x \in S : \A y \in S : x <= y

\* the last index of the longest run of [a-f0-9] that starts at i (i - 1: no run)
HexRunEnd(s, i) ==
    Min({p \in i..(Len(s) + 1) : p = Len(s) + 1 \/ ~IsHexChar(s[p])}) - 1

\* the last index of the longest run of '.' that starts at i (i - 1: no run)
DotRunEnd(s, i) ==
    Min({p \in i..(Len(s) + 1) : p = Len(s) + 1 \/ ~IsDot(s[p])}) - 1

\* '$' just before position p: the end of the text, or with flag m the end of a line
AtDollar(s, p, multiline) == p = Len(s) + 1 \/ (multiline /\ s[p] = 10)

NoMatch == [matched |-> FALSE]

\* the match that starts at i, if there is one.  A hex run cannot stop early
\* (the next character would have to be '/', '#' or a line end), and '.+' must
\* run to the end of its line, so each group has one candidate extent.
MatchAt(s, i, multiline) ==
    LET j == HexRunEnd(s, i)          \* group 1 is s[i..j]
        k == HexRunEnd(s, j + 2)      \* group 2 is s[j+2..k]
        e == DotRunEnd(s, k + 2)          \* group 3 is s[k+2..e]
        two == /\ j >= i
               /\ j + 1 <= Len(s) /\ s[j + 1] = 47
               /\ k >= j + 2
        withKey == /\ k + 1 <= Len(s) /\ s[k + 1] = 35
                   /\ e >= k + 2
                   /\ AtDollar(s, e + 1, multiline)
    IN  IF ~two THEN NoMatch
        ELSE IF withKey
             THEN [matched |-> TRUE, at |-> i, m1 |-> SubSeq(s, i, j),
                   m2 |-> SubSeq(s, j + 2, k), m3 |-> SubSeq(s, k + 2, e)]
        ELSE IF AtDollar(s, k + 1, multiline)
             THEN [matched |-> TRUE, at |-> i, m1 |-> SubSeq(s, i, j),
                   m2 |-> SubSeq(s, j + 2, k), m3 |-> << >>]
        ELSE NoMatch

\* regexp.FindStringSubmatch: nil, or the groups of the leftmost match; a group
\* that took no part in the match is returned as "", like an empty one.  A match
\* that starts inside a hex run extends to the start of the run, so the leftmost
\* match starts where a run starts.
FindSubmatch(s, multiline) ==
    LET starts == {i \in 1..Len(s) :
                      /\ IsHexChar(s[i])
                      /\ (i = 1 \/ ~IsHexChar(s[i - 1]))
                      /\ MatchAt(s, i, multiline).matched}
    IN  IF starts = {} THEN NoMatch ELSE MatchAt(s, Min(starts), multiline)

\* the expression compiled without (?m)
QueryMatchSingleLine == FALSE

\* part_000 compiles the expression with (?m); pkg/pastila/service.go without
QueryMatchMultiline == TRUE

FindStringSubmatch(s) == FindSubmatch(s, QueryMatchMultiline)


(***************************************************************************)
(* pkg/pastila: errors, Paste, write options.                              *)
(***************************************************************************)
ErrInvalidURL  == "ErrInvalidURL"
ErrNotFound    == "ErrNotFound"
ErrKeyRequired == "ErrKeyRequired"
ErrInvalidKey  == "ErrInvalidKey"
\* errors that wrap none of the four above
ErrTransport   == "transport error"          \* HTTPClient.Do failed
ErrStatus      == "unexpected status code"   \* a status other than 200
ErrHexDecode   == "failed to decode hex"     \* hex.DecodeString failed

\* "https://pastila.nl/"
chURL == << 104, 116, 116, 112, 115, 58, 47, 47, 112, 97, 115, 116, 105, 108, 97,
            46, 110, 108, 47 >>

\* type Paste.  content is the ReadCloser's bytes, Nil when Write built the paste
Paste(url, fingerprint, hash, prevFingerprint, prevHash, key, content) ==
    [nil |-> FALSE, URL |-> url, Fingerprint |-> fingerprint, Hash |-> hash,
     PreviousFingerprint |-> prevFingerprint, PreviousHash |-> prevHash,
     Key |-> key, content |-> content]

\* opts := &writeOptions{}
ZeroOptions == [key |-> Nil, previousFingerprint |-> Nil, previousHash |-> Nil]

\* WithKey(key)
WithKey(key) == [option |-> "WithKey", key |-> key]

\* WithPreviousPaste(p)
WithPreviousPaste(p) == [option |-> "WithPreviousPaste", p |-> p]

\* options of which only the first to set the key takes effect on it
ApplyOptionFirstKeyWins(o, opts) ==
    LET key == IF opts.key = Nil THEN (IF o.option = "WithKey" THEN o.key ELSE o.p.Key)
               ELSE opts.key
    IN  IF o.option = "WithKey" THEN [opts EXCEPT !.key = key]
        ELSE IF o.p = NilPaste THEN opts
        ELSE [opts EXCEPT !.previousFingerprint = o.p.Fingerprint,
                          !.previousHash = o.p.Hash,
                          !.key = key]

\* o(opts) for one option
ApplyOption(o, opts) ==
    IF o.option = "WithKey" THEN [opts EXCEPT !.key = o.key]
    ELSE IF o.p = NilPaste THEN opts
    ELSE [opts EXCEPT !.previousFingerprint = o.p.Fingerprint,
                      !.previousHash = o.p.Hash,
                      !.key = o.p.Key]

RECURSIVE ApplyOptions(_, _)
\* for _, o := range opt { o(opts) }
ApplyOptions(opt, opts) ==
    IF opt = << >> THEN opts
    ELSE ApplyOptions(Tail(opt), ApplyOption(Head(opt), opts))

(***************************************************************************)
(* The backend: the table `data` of table.ddl.sql behind the HTTP          *)
(* interface.  net is what the transport and the server do to one request. *)
(***************************************************************************)
Nets == {"ok", "transport", "noQueryID", "unavailable", "unavailableNoQueryID",
         "bodyCut"}

\* the responses without the X-ClickHouse-Query-Id header
NoQueryIDNets == {"noQueryID", "unavailableNoQueryID"}

\* the responses of a server that is unavailable: status 503
UnavailableNets == {"unavailable", "unavailableNoQueryID", "bodyCut"}

\* ClickHouse's unhex of a string of hex digits (a lone leading digit is a byte)
CHUnhex(h) ==
    IF Len(h) % 2 = 0 THEN HexDecode(h).bytes
    ELSE << HexVal(h[1]) >> \o HexDecode(Tail(h)).bytes

\* reinterpretAsUInt32 / reinterpretAsUInt128 of a string: its first `width`
\* bytes, zero-filled
Reinterpret(b, width) == [i \in 1..width |-> ByteAt(b, i)]

\* the row the table derives from one JSONEachRow record of the insert (the
\* DEFAULT expressions of the columns)
StoredRow(rec) ==
    [fingerprint      |-> Reinterpret(CHUnhex(rec.fingerprint_hex), 4),
     hash             |-> Reinterpret(CHUnhex(rec.hash_hex), 16),
     prev_fingerprint |-> Reinterpret(CHUnhex(rec.prev_fingerprint_hex), 4),
     prev_hash        |-> Reinterpret(CHUnhex(rec.prev_hash_hex), 16),
     content          |-> rec.content,
     is_encrypted     |-> rec.is_encrypted]

\* CONSTRAINT hash_is_correct CHECK sipHash128(content) = reinterpretAsFixedString(hash)
HashIsCorrect(row) == SipHash128(row.content) = row.hash

\* the response to an insert request: the status, and whether the
\* X-ClickHouse-Query-Id header is there; a row that breaks a constraint is refused
InsertStatus(rec, net) ==
    IF net \in UnavailableNets THEN 503
    ELSE IF HashIsCorrect(StoredRow(rec)) THEN 200 ELSE 500

\* the table after the insert request
InsertRows(table, rec, net) ==
    IF net = "ok" /\ InsertStatus(rec, net) = 200
    THEN Append(table, StoredRow(rec)) ELSE table

\* a select that orders by time descending
SelectRowsLatest(table, fingerprintHex, hashHex) ==
    LET fp == Reinterpret(CHUnhex(fingerprintHex), 4)
        h  == Reinterpret(CHUnhex(hashHex), 16)
        hits == SelectSeq(table, LAMBDA r : r.fingerprint = fp /\ r.hash = h)
    IN  IF hits = << >> THEN << >> ELSE << hits[Len(hits)] >>

\* selectDataQuery: WHERE fingerprint = ... AND hash = ... ORDER BY time LIMIT 1.
\* The table is kept in time order, so the row returned is the first that matches.
SelectRows(table, fingerprintHex, hashHex) ==
    LET fp == Reinterpret(CHUnhex(fingerprintHex), 4)
        h  == Reinterpret(CHUnhex(hashHex), 16)
        hits == SelectSeq(table, LAMBDA r : r.fingerprint = fp /\ r.hash = h)
    IN  IF hits = << >> THEN << >> ELSE << Head(hits) >>

\* the status of the response to a select request
SelectStatus(net) == IF net \in UnavailableNets THEN 503 ELSE 200

\* the body of a response: "Busy" with 503, "Bad" with another failure, and with
\* 200 the rows, which the error path never reads
ResponseBody(status) ==
    IF status = 200 THEN << >>
    ELSE IF status = 503 THEN << 66, 117, 115, 121 >>
    ELSE << 66, 97, 100 >>

\* responseBody.ReadFrom(resp.Body), its error dropped: the whole body, or what
\* came before the read broke
ReadFrom(net, body) == IF net = "bodyCut" THEN SubSeq(body, 1, 1) ELSE body

\* an executeRequestWithParams that tests the status before the header
ExecuteRequestStatusFirst(net, status) ==
    IF net = "transport" THEN ErrTransport
    ELSE IF status # 200 THEN ErrStatus
    ELSE IF net \in NoQueryIDNets THEN ErrInvalidURL
    ELSE NoErr

\* executeRequestWithParams: the error it returns, NoErr when it returns resp
ExecuteRequest(net, status) ==
    IF net = "transport" THEN ErrTransport
    ELSE IF net \in NoQueryIDNets THEN ErrInvalidURL
    ELSE IF status # 200 THEN ErrStatus
    ELSE NoErr

NoDetail == [none |-> TRUE]

\* an error text that leaves the response body out
ErrorDetailNoBody(net, status) ==
    IF ExecuteRequest(net, status) = ErrStatus
    THEN [none |-> FALSE, code |-> status, response |-> << >>]
    ELSE NoDetail

\* what executeRequestWithParams formats into the error of a status other than
\* 200: "unexpected status code: %d, response: %s"
ErrorDetail(net, status) ==
    IF ExecuteRequest(net, status) = ErrStatus
    THEN [none |-> FALSE, code |-> status,
          response |-> ReadFrom(net, ResponseBody(status))]
    ELSE NoDetail


(***************************************************************************)
(* Service.Write and Service.Read.                                         *)
(***************************************************************************)
\* a locator that never carries the key
BuildURLWithoutKey(pastilaURL, fingerprint, hash, key) ==
    LET base == IF pastilaURL = << >> THEN chURL ELSE pastilaURL
    IN  base \o << 63 >> \o HexEncode(fingerprint) \o << 47 >> \o HexEncode(hash)

\* fmt.Sprintf("%s?%x/%x%s", pastilaURL, fingerprint, hash, keyAppend)
BuildURL(pastilaURL, fingerprint, hash, key) ==
    LET keyAppend == IF key # Nil THEN << 35 >> \o Base64Encode(key) ELSE << >>
        base == IF pastilaURL = << >> THEN chURL ELSE pastilaURL
    IN  base \o << 63 >> \o HexEncode(fingerprint) \o << 47 >> \o HexEncode(hash)
             \o keyAppend

\* the cipher text framed without its base64 encoding
WriteContentUnencoded(b, key) ==
    IF key # Nil THEN XORKeyStream(key, b) ELSE b

\* the content Write frames: base64 of the CTR cipher text under a key, the
\* input bytes otherwise
WriteContent(b, key) ==
    IF key # Nil THEN Base64Encode(XORKeyStream(key, b)) ELSE b

\* the JSONEachRow record Write sends, as the server reads it
InsertRecord(b, opts) ==
    LET content == WriteContent(b, opts.key)
    IN  [is_encrypted         |-> opts.key # Nil,
         content              |-> JSONString(content),
         hash_hex             |-> HexEncode(SipHash128(content)),
         fingerprint_hex      |-> HexEncode(Repeat(255, 4)),
         prev_hash_hex        |-> HexEncode(opts.previousHash),
         prev_fingerprint_hex |-> HexEncode(opts.previousFingerprint)]

NoRecord == [none |-> TRUE]

\* Service.Write(input, opt...): the error, the paste, and the insert record
\* sent to the backend (NoRecord when no request was made)
Write(pastilaURL, input, opt, net) ==
    LET opts == ApplyOptions(opt, ZeroOptions)
        rec  == InsertRecord(input, opts)
        hash == SipHash128(WriteContent(input, opts.key))
        fingerprint == Repeat(255, 4)
        err  == ExecuteRequest(net, InsertStatus(rec, net))
    IN  IF opts.key # Nil /\ ~NewCipherOK(opts.key)
        THEN [err |-> ErrInvalidKey, paste |-> NilPaste, record |-> NoRecord]
        ELSE IF err # NoErr
        THEN [err |-> err, paste |-> NilPaste, record |-> rec,
              detail |-> ErrorDetail(net, InsertStatus(rec, net))]
        ELSE [err |-> NoErr,
              paste |-> Paste(BuildURL(pastilaURL, fingerprint, hash, opts.key),
                              fingerprint, hash, opts.previousFingerprint,
                              opts.previousHash, opts.key, Nil),
              record |-> rec]

\* the head of Read that drops the error of the key segment's base64
LocatorMatchAnyKey(url) ==
    LET matches == FindStringSubmatch(url)
        key == Base64Decode(matches.m3)
    IN  IF ~matches.matched
        THEN [err |-> ErrInvalidURL, fingerprintHex |-> << >>, hashHex |-> << >>,
              key |-> Nil]
        ELSE [err |-> NoErr, fingerprintHex |-> matches.m1, hashHex |-> matches.m2,
              key |-> key.bytes]

\* the head of Service.Read: the match, then the key segment's base64
LocatorMatch(url) ==
    LET matches == FindStringSubmatch(url)
        key == Base64Decode(matches.m3)     \* len(matches) == 4 holds of every match
    IN  IF ~matches.matched
        THEN [err |-> ErrInvalidURL, fingerprintHex |-> << >>, hashHex |-> << >>,
              key |-> Nil]
        ELSE IF key.err # NoErr
        THEN [err |-> ErrInvalidKey, fingerprintHex |-> matches.m1,
              hashHex |-> matches.m2, key |-> Nil]
        ELSE [err |-> NoErr, fingerprintHex |-> matches.m1, hashHex |-> matches.m2,
              key |-> key.bytes]


(***************************************************************************)
(* Bounds and inputs.                                                      *)
(***************************************************************************)
\* rows the backend table may hold
MaxRows == 2

\* bytes.Repeat([]byte{0x01}, 16), the key of TestWriteEncryptedOwnKey
Key16 == Repeat(1, 16)

\* a key of no AES key size
Key3 == << 1, 2, 3 >>

\* "Hi"
TextContent == << 72, 105 >>

\* one byte that is not UTF-8
BinaryContent == << 255 >>

\* text that reads like the stored form of TextContent encrypted under Key16
Base64LookingContent == Base64Encode(XORKeyStream(Key16, TextContent))

Contents == {TextContent, BinaryContent, Base64LookingContent}

\* the keys a caller passes to WithKey: none, empty, a valid one, one of a wrong size
WriteKeys == {Nil, << >>, Key16, Key3}

\* the (content, key) pairs written: every content without a key, the text
\* with every key
WriteInputs == (Contents \X {Nil}) \cup ({TextContent} \X WriteKeys)

\* "invalid", the key segment of TestReadInvalidKey
InvalidSegment == << 105, 110, 118, 97, 108, 105, 100 >>

\* "https://some.url/invalid/path", the locator of TestReadInvalidUrlPath
InvalidPathURL == << 104, 116, 116, 112, 115, 58, 47, 47, 115, 111, 109, 101, 46,
                     117, 114, 108, 47, 105, 110, 118, 97, 108, 105, 100, 47, 112,
                     97, 116, 104 >>

\* the locators of one (fingerprint, hash): without key, with an empty key
\* segment ("#\r"), with each key
LocatorsOf(fingerprint, hash) ==
    LET bare == BuildURL(<< >>, fingerprint, hash, Nil)
    IN  {bare, bare \o << 35, 13 >>}
        \cup {BuildURL(<< >>, fingerprint, hash, k) : k \in {Key16, Key3}}

\* the locators that are malformed: a "#" with nothing behind it, the key
\* segment "invalid", and the string of TestReadInvalidUrlPath
MalformedLocators ==
    LET bare == BuildURL(<< >>, Repeat(255, 4), SipHash128(TextContent), Nil)
    IN  {bare \o << 35 >>, bare \o << 35 >> \o InvalidSegment, InvalidPathURL}

\* the hashes of what is written without a key or with the valid one
WrittenHashes ==
    {SipHash128(WriteContent(in[1], in[2])) :
        in \in {w \in WriteInputs : w[2] \in {Nil, Key16}}}

\* the locators Read is given
ReadURLs ==
    UNION {LocatorsOf(Repeat(255, 4), h) : h \in WrittenHashes} \cup MalformedLocators

\* the locators (without a key, with the right one) tried with a failing request
FailingReadURLs ==
    {BuildURL(<< >>, Repeat(255, 4), SipHash128(WriteContent(TextContent, k)), k) :
        k \in {Nil, Key16}}

(***************************************************************************)
(* Service.Read.                                                           *)
(***************************************************************************)
Failed(err) == [err |-> err, paste |-> NilPaste]

\* the tail of Read without the check for an empty key
ReadRowNoKeyCheck(url, loc, hit) ==
    LET fingerprint == HexDecode(loc.fingerprintHex)
        hash == HexDecode(loc.hashHex)
        row  == [Encrypted |-> hit.is_encrypted, Content |-> JSONString(hit.content)]
        ciphertext == Base64Decode(row.Content)
    IN  IF fingerprint.err # NoErr \/ hash.err # NoErr THEN Failed(ErrHexDecode)
        ELSE IF ~row.Encrypted
        THEN [err |-> NoErr,
              paste |-> Paste(url, fingerprint.bytes, hash.bytes, Nil, Nil, loc.key,
                              row.Content)]
        ELSE IF ciphertext.err # NoErr THEN Failed(ErrInvalidKey)
        ELSE IF ~NewCipherOK(loc.key) THEN Failed(ErrInvalidKey)
        ELSE [err |-> NoErr,
              paste |-> Paste(url, fingerprint.bytes, hash.bytes, Nil, Nil, loc.key,
                              XORKeyStream(loc.key, ciphertext.bytes))]

\* the tail of Service.Read once the select has returned the row `hit`
ReadRow(url, loc, hit) ==
    LET fingerprint == HexDecode(loc.fingerprintHex)
        hash == HexDecode(loc.hashHex)
        row  == [Encrypted |-> hit.is_encrypted, Content |-> JSONString(hit.content)]
        ciphertext == Base64Decode(row.Content)
    IN  IF fingerprint.err # NoErr \/ hash.err # NoErr THEN Failed(ErrHexDecode)
        ELSE IF ~row.Encrypted
        THEN [err |-> NoErr,
              paste |-> Paste(url, fingerprint.bytes, hash.bytes, Nil, Nil, loc.key,
                              row.Content)]
        ELSE IF Len(loc.key) = 0 THEN Failed(ErrKeyRequired)
        ELSE IF ciphertext.err # NoErr THEN Failed(ErrInvalidKey)
        ELSE IF ~NewCipherOK(loc.key) THEN Failed(ErrInvalidKey)
        ELSE [err |-> NoErr,
              paste |-> Paste(url, fingerprint.bytes, hash.bytes, Nil, Nil, loc.key,
                              XORKeyStream(loc.key, ciphertext.bytes))]

\* Service.Read(url) against the table, the request meeting `net`
Read(url, table, net) ==
    LET loc == LocatorMatch(url)
        err == ExecuteRequest(net, SelectStatus(net))
        hits == SelectRows(table, loc.fingerprintHex, loc.hashHex)
    IN  IF loc.err # NoErr THEN Failed(loc.err)
        ELSE IF err # NoErr
        THEN [err |-> err, paste |-> NilPaste,
              detail |-> ErrorDetail(net, SelectStatus(net))]
        ELSE IF hits = << >> THEN Failed(ErrNotFound)
        ELSE ReadRow(url, loc, hits[1])



(***************************************************************************)
(* The service specification: writes and reads against one backend.        *)
(***************************************************************************)
NoCall == [op |-> "none"]

EditIdle ==
    /\ file = [content |-> << >>, size |-> 0, mtime |-> 0]
    /\ clock = 0
    /\ stat = [size |-> 0, mtime |-> 0]
    /\ paste = NilPaste
    /\ editor = "none"
    /\ mainPc = "none"
    /\ pollPc = "none"
    /\ cancelled = FALSE
    /\ poll = [polled |-> FALSE]
    /\ save = [saved |-> FALSE]
    /\ nsaves = 0
    /\ lastSaved = NilPaste
    /\ result = [returned |-> FALSE]
    /\ original = NilPaste
    /\ waitPc = "none"
    /\ printWriter = "os.Stdout"
    /\ printBuffer = [nil |-> TRUE, buf |-> << >>]
    /\ stdout = << >>
    /\ prompted = "no"
    /\ edited = "never"
    /\ processState = "nil"
    /\ inflight = [none |-> TRUE]
    /\ flushes = 0
    /\ tempFile = "none"

editVars == <<file, clock, stat, paste, editor, mainPc, pollPc, waitPc, cancelled,
              poll, save, nsaves, lastSaved, result, original, printWriter,
              printBuffer, stdout, prompted, edited, processState, inflight,
              flushes, tempFile>>

InitService ==
    /\ rows = << >>
    /\ call = NoCall
    /\ codec = NoCall
    /\ EditIdle

\* the detail of the error a call returned
DetailOf(r) == IF "detail" \in DOMAIN r THEN r.detail ELSE NoDetail

\* main with a locator argument and without -e: readPaste copies the content
\* to os.Stdout; main prints readPaste's error with printf and exits with 1
MainRead(r) ==
    LET report == << [kind |-> "error", err |-> r.err] >>
    IN  IF r.err = NoErr
        THEN [stdout |-> << [kind |-> "content", bytes |-> r.paste.content] >>,
              stderr |-> << >>, exit |-> 0]
        ELSE IF printWriter = "os.Stdout"
        THEN [stdout |-> report, stderr |-> << >>, exit |-> 1]
        ELSE [stdout |-> << >>, stderr |-> report, exit |-> 1]

\* what a write that fails in transit is tried with
FailingWriteInputs == {<<TextContent, Nil>>, <<TextContent, Key16>>}

\* service.Write(reader, pastila.WithKey(k)), as writePaste calls it
DoWrite ==
    \E net \in Nets :
        \E in \in (IF net = "ok" THEN WriteInputs ELSE FailingWriteInputs) :
            /\ Len(rows) < MaxRows
            /\ \E w \in {Write(<< >>, in[1], << WithKey(in[2]) >>, net)} :
                   /\ call' = [op |-> "Write", input |-> in[1], key |-> in[2],
                               net |-> net, err |-> w.err, paste |-> w.paste,
                               record |-> w.record, detail |-> DetailOf(w)]
                   /\ rows' = IF w.record = NoRecord THEN rows
                              ELSE InsertRows(rows, w.record, net)
            /\ UNCHANGED <<codec, editVars>>

\* the call before this one was the Write that returned the locator url
WroteLocator(url) ==
    call.op = "Write" /\ call.err = NoErr /\ call.paste.URL = url

\* service.Read(url).  A request that fails in transit is tried with two
\* locators only.  wrote is the input and key of the Write that has just
\* returned url, when that is what is read.
DoRead ==
    \E net \in Nets :
        \E url \in (IF net = "ok" THEN ReadURLs ELSE FailingReadURLs) :
            /\ \E r \in {Read(url, rows, net)} :
                   call' = [op |-> "Read", url |-> url, net |-> net, err |-> r.err,
                            paste |-> r.paste, detail |-> DetailOf(r),
                            out |-> MainRead(r),
                            wrote |-> IF WroteLocator(url)
                                      THEN [input |-> call.input, key |-> call.key]
                                      ELSE NoCall]
            /\ UNCHANGED <<rows, codec, editVars>>

NextService == DoWrite \/ DoRead

SpecService == InitService /\ [][NextService]_vars

(***************************************************************************)
(* Claims about Write and Read: C4, C5, C6, C7.                            *)
(***************************************************************************)
\* the row (if any) the select of Read(url) returns from the table
SelectedRow(url) ==
    SelectRows(rows, LocatorMatch(url).fingerprintHex, LocatorMatch(url).hashHex)

\* the last call read back, over a working connection, the locator that the
\* call before it had written
ReadBack == call.op = "Read" /\ call.wrote # NoCall /\ call.net = "ok"

\* the oldest row under the locator has the content and the flag of the record
\* that the write stored
OldestIsWritten ==
    /\ SelectedRow(call.url) # << >>
    /\ SelectedRow(call.url)[1].content = WriteContent(call.wrote.input, call.wrote.key)
    /\ SelectedRow(call.url)[1].is_encrypted = (call.wrote.key # Nil)

\* C4 as amended: reading the locator a successful Write (without a key or with
\* a valid one) returned gives back exactly the bytes written, provided the
\* oldest row the backend holds under the locator's fingerprint and hash has
\* the content and the encrypted flag of the record that Write stored
C4_RoundTripWhenOldest ==
    (ReadBack /\ OldestIsWritten) =>
        /\ call.err = NoErr
        /\ call.paste.content = call.wrote.input

\* an encrypted write has been read back to its plain text
C4_Witness ==
    /\ ReadBack /\ OldestIsWritten
    /\ call.wrote.key = Key16
    /\ call.err = NoErr
    /\ call.paste.content = TextContent

\* C4 as stated: reading the locator a successful Write returned gives back
\* exactly the bytes written
C4_RoundTrip ==
    ReadBack => (call.err = NoErr /\ call.paste.content = call.wrote.input)

\* C5: the hash Write declares in the insert record and puts in the locator is
\* the hash of the content bytes the backend stores for that record, and the
\* fingerprint is four 0xFF bytes
C5_DeclaredHashOfStoredContent ==
    (call.op = "Write" /\ call.record # NoRecord) =>
        /\ HexDecode(call.record.hash_hex).bytes
              = SipHash128(StoredRow(call.record).content)
        /\ HexDecode(call.record.fingerprint_hex).bytes = Repeat(255, 4)
        /\ call.err = NoErr =>
              /\ call.paste.Hash = SipHash128(StoredRow(call.record).content)
              /\ call.paste.Fingerprint = Repeat(255, 4)

\* the key Read takes from the locator is absent or empty
NoKeySupplied(url) == LocatorMatch(url).err = NoErr /\ Len(LocatorMatch(url).key) = 0

\* the request of Read(call.url) came back with a row marked encrypted
ReadEncryptedRow ==
    /\ call.op = "Read" /\ call.net = "ok"
    /\ LocatorMatch(call.url).err = NoErr
    /\ SelectedRow(call.url) # << >>
    /\ SelectedRow(call.url)[1].is_encrypted

\* C6: Read of a locator whose row is marked encrypted, without a key or with
\* an empty one, fails with ErrKeyRequired and returns no paste
C6_KeyRequired ==
    (ReadEncryptedRow /\ NoKeySupplied(call.url)) =>
        (call.err = ErrKeyRequired /\ call.paste = NilPaste)

\* an encrypted row has been read through its locator without the key
C6_Witness ==
    /\ ReadEncryptedRow
    /\ call.url = BuildURL(<< >>, Repeat(255, 4),
                           SipHash128(WriteContent(TextContent, Key16)), Nil)
    /\ call.err = ErrKeyRequired

\* the length of key is no AES key size
WrongSize(key) == Len(key) \notin {16, 24, 32}

\* C7 as amended: Write with a key of a wrong size returns ErrInvalidKey and
\* sends no insert; Read with a non-empty key of a wrong size fails with
\* ErrInvalidKey when the row it is answered with is marked encrypted
C7_InvalidKeyAtConstruction ==
    /\ (call.op = "Write" /\ call.key # Nil /\ WrongSize(call.key)) =>
          (call.err = ErrInvalidKey /\ call.record = NoRecord /\ call.paste = NilPaste)
    /\ (ReadEncryptedRow /\ ~NoKeySupplied(call.url)
          /\ WrongSize(LocatorMatch(call.url).key)) =>
          (call.err = ErrInvalidKey /\ call.paste = NilPaste)

\* Write has refused a key of three bytes before any request
C7_WriteRefused ==
    /\ call.op = "Write" /\ call.key = Key3
    /\ call.err = ErrInvalidKey /\ call.record = NoRecord

\* Read of an encrypted row has refused a key of three bytes
C7_Witness ==
    /\ ReadEncryptedRow /\ LocatorMatch(call.url).key = Key3
    /\ call.err = ErrInvalidKey

\* C7 as stated: Read with a key of a wrong size fails with ErrInvalidKey,
\* whatever row answers it
C7_ReadInvalidKey ==
    (/\ call.op = "Read" /\ call.net = "ok"
     /\ LocatorMatch(call.url).err = NoErr
     /\ Len(LocatorMatch(call.url).key) > 0 /\ WrongSize(LocatorMatch(call.url).key)
     /\ SelectedRow(call.url) # << >>) =>
        call.err = ErrInvalidKey

(***************************************************************************)
(* The locator specification: Write's locator string (BuildURL) and the    *)
(* parse at the head of Read, over strings drawn at Init.                  *)
(***************************************************************************)
\* length of the strings enumerated in full
MaxStrLen == 5

\* 'a' 'b' '/' '#' '\n'
Alphabet == {97, 98, 47, 35, 10}

ShortStrings == UNION {[1..n -> Alphabet] : n \in 0..MaxStrLen}

\* "a", "b"
HexWords == {<< 97 >>, << 98 >>}

\* nothing, "#", "#a", "#AAAA" (base64 of three zero bytes), "#\r"
KeySegments == {<< >>, << 35 >>, << 35, 97 >>, << 35, 65, 65, 65, 65 >>, << 35, 13 >>}

\* <hex>/<hex>[#<key>]
LocatorForms == {x \o << 47 >> \o y \o k : x \in HexWords, y \in HexWords, k \in KeySegments}

\* nothing, "\n", "#", "/", "?"
Separators == {<< >>, << 10 >>, << 35 >>, << 47 >>, << 63 >>}

\* two locator forms in one string
TwoLocators == {x \o sep \o y : x \in LocatorForms, y \in LocatorForms, sep \in Separators}

\* the strings Read is given
CodecStrings ==
    ShortStrings \cup TwoLocators
    \cup {InvalidPathURL, chURL \o << 35 >> \o InvalidSegment}
    \cup LocatorsOf(Repeat(255, 4), SipHash128(TextContent)) \cup MalformedLocators

\* "http://localhost:8123/"
LocalURL == << 104, 116, 116, 112, 58, 47, 47, 108, 111, 99, 97, 108, 104, 111, 115,
               116, 58, 56, 49, 50, 51, 47 >>

\* what Write builds a locator from: the service's URL ("" selects chURL), the
\* constant fingerprint, a hash, and no key or a key of an AES key size
BuildArgs ==
    [pastilaURL : {<< >>, LocalURL},
     fingerprint : {Repeat(255, 4)},
     hash : {SipHash128(TextContent), SipHash128(<< >>)},
     key : {Nil, Key16, Repeat(171, 24), Repeat(255, 32)}]

NoArgs == [none |-> TRUE]

InitCodec ==
    /\ rows = << >>
    /\ call = NoCall
    /\ EditIdle
    /\ codec \in {[pc |-> "str", args |-> NoArgs, str |-> s] : s \in CodecStrings}
                 \cup {[pc |-> "args", args |-> a, str |-> << >>] : a \in BuildArgs}

\* the locator string of Write's return value
BuildLocator ==
    /\ codec.pc = "args"
    /\ codec' = [pc |-> "built", args |-> codec.args,
                 str |-> BuildURL(codec.args.pastilaURL, codec.args.fingerprint,
                                  codec.args.hash, codec.args.key)]
    /\ UNCHANGED <<rows, call, editVars>>

\* service.Read(str) against the backend as it is: loc is what Read takes from
\* the string, read what it returns
ParseLocator ==
    /\ codec.pc \in {"str", "built"}
    /\ codec' = [pc |-> "parsed", args |-> codec.args, str |-> codec.str,
                 loc |-> LocatorMatch(codec.str), read |-> Read(codec.str, rows, "ok")]
    /\ UNCHANGED <<rows, call, editVars>>

NextCodec == BuildLocator \/ ParseLocator

SpecCodec == InitCodec /\ [][NextCodec]_vars

(***************************************************************************)
(* Claims about the locator: C8, C9, C10.                                  *)
(***************************************************************************)
Parsed == codec.pc = "parsed"

BuiltAndParsed == Parsed /\ codec.args # NoArgs

\* C8: parsing the locator string Write builds from a service URL, a
\* fingerprint, a hash and a key yields that fingerprint, hash and key
C8_LocatorRoundTrip ==
    BuiltAndParsed =>
        /\ codec.loc.err = NoErr
        /\ HexDecode(codec.loc.fingerprintHex).bytes = codec.args.fingerprint
        /\ HexDecode(codec.loc.hashHex).bytes = codec.args.hash
        /\ codec.loc.key = codec.args.key

\* the round trip does hold of the locators built with a key
C8_KeyedRoundTripSeen ==
    /\ BuiltAndParsed
    /\ codec.args.key # Nil
    /\ codec.loc.key = codec.args.key

\* s[i..j] is a run of hex digits
HexRun(s, i, j) == i <= j /\ \A p \in i..j : IsHexChar(s[p])

\* the positions of the '/' that have a hex digit on either side
Slashes(s) ==
    {p \in 2..(Len(s) - 1) : s[p] = 47 /\ IsHexChar(s[p - 1]) /\ IsHexChar(s[p + 1])}

\* the string holds a fingerprint/hash pattern
HasPattern(s) == Slashes(s) # {}

\* the position of the first '#' of s, 0 when there is none
FirstHash(s) ==
    IF \E q \in 1..Len(s) : s[q] = 35
    THEN CHOOSE q \in 1..Len(s) : s[q] = 35 /\ \A r \in 1..(q - 1) : s[r] # 35
    ELSE 0

\* s is one line "...<hex>/<hex>#<segment>" whose segment is not standard base64
InvalidKeySegment(s) ==
    LET q == FirstHash(s)
    IN  /\ q > 3
        /\ \A r \in 1..Len(s) : s[r] # 10
        /\ \E p \in Slashes(s) : HexRun(s, p + 1, q - 1)
        /\ Base64Decode(SubSeq(s, q + 1, Len(s))).err # NoErr

\* C9: Read of a locator whose segment after '#' is not valid base64 fails with
\* ErrInvalidKey, and Read of a string with no fingerprint/hash pattern fails
\* with ErrInvalidURL; neither returns a paste
C9_InvalidKeyInvalidLocator ==
    Parsed =>
        /\ InvalidKeySegment(codec.str) =>
              codec.read = Failed(ErrInvalidKey)
        /\ ~HasPattern(codec.str) =>
              codec.read = Failed(ErrInvalidURL)

\* the locator of TestReadInvalidKey's form, "...#invalid", has been read
C9_Witness ==
    /\ Parsed
    /\ codec.str = BuildURL(<< >>, Repeat(255, 4), SipHash128(TextContent), Nil)
                       \o << 35 >> \o InvalidSegment
    /\ InvalidKeySegment(codec.str)
    /\ codec.read = Failed(ErrInvalidKey)

\* the string of TestReadInvalidUrlPath has been read
C9_NoPatternSeen ==
    /\ Parsed
    /\ codec.str = InvalidPathURL
    /\ ~HasPattern(codec.str)
    /\ codec.read = Failed(ErrInvalidURL)

\* k ends a line of s
EndsLine(s, k) == k = Len(s) \/ s[k + 1] = 10

\* s[k] is followed by '#' and one more character of the same line
KeyFollows(s, k) == k + 2 <= Len(s) /\ s[k + 1] = 35 /\ s[k + 2] # 10

\* the end of the line that position k is on
LineEnd(s, k) == CHOOSE e \in k..Len(s) : EndsLine(s, e) /\ \A r \in (k + 1)..e : s[r] # 10

\* the occurrences <<i, p, k>> of <hex>/<hex>: s[i..p-1] and s[p+1..k] are hex
\* digits around the '/' at p
Occurrences(s) ==
    UNION {{<<i, p, k>> : i \in {x \in 1..(p - 1) : HexRun(s, x, p - 1)},
                          k \in {y \in (p + 1)..Len(s) : HexRun(s, p + 1, y)}} :
           p \in Slashes(s)}

\* the occurrences the parser can take: those that end their line or are
\* followed by a key segment
Anchored(s) == {o \in Occurrences(s) : EndsLine(s, o[3]) \/ KeyFollows(s, o[3])}

\* the occurrence of O that starts first (the longest of those)
Leftmost(O) == CHOOSE o \in O : \A x \in O : o[1] <= x[1]

\* the occurrence of O that starts last, taken with all of its hex digits
Rightmost(O) ==
    CHOOSE o \in O : \A x \in O : x[2] < o[2] \/ (x[2] = o[2] /\ o[1] <= x[1] /\ x[3] <= o[3])

MaxClock == 2

\* "Yo" (the size of "Hi"), "Hey", and nothing
EditContents == {<< 89, 111 >>, << 72, 101, 121 >>, << >>}

\* what a save's request meets
SaveNets == {"ok", "transport"}

\* the backend holding the row of one write of TextContent under `key`, and the
\* paste that readPaste hands to editPaste after service.Read of `url`
Session(key, url) ==
    LET table == << StoredRow(InsertRecord(TextContent, [ZeroOptions EXCEPT !.key = key])) >>
    IN  [rows |-> table, paste |-> Read(url, table, "ok").paste]

\* sessions on an unencrypted paste (a locator without key) and on an encrypted
\* one (the locator with its key)
Sessions ==
    {Session(Nil, BuildURL(<< >>, Repeat(255, 4), SipHash128(TextContent), Nil)),
     Session(Key16, BuildURL(<< >>, Repeat(255, 4),
                             SipHash128(WriteContent(TextContent, Key16)), Key16))}

\* f.Stat()
FileStat == [size |-> file.size, mtime |-> file.mtime]

\* what printf writes: the locator of save number n, the error of save number
\* n, the prompt after a quick exit, the error of waiting for the editor, the
\* error of pasteToTemp
URLMessage(n) == [kind |-> "url", n |-> n]

ErrorMessage(n) == [kind |-> "error", n |-> n]

PromptMessage == [kind |-> "prompt", n |-> 0]

WaitErrorMessage == [kind |-> "waitError", n |-> 0]

TempErrorMessage == [kind |-> "tempError", n |-> 0]

\* printBuffer := &bytes.Buffer{}; printWriter = printBuffer
NewPrintBuffer == [nil |-> FALSE, buf |-> << >>]

\* printBuffer = nil
NilPrintBuffer == [nil |-> TRUE, buf |-> << >>]

\* no printf of the polling goroutine is under way
NoWrite == [none |-> TRUE]

\* what pasteToTemp meets: success, os.CreateTemp failing, io.Copy failing
TempOutcomes == {"ok", "createFailed", "copyFailed"}

\* editPaste is entered with the paste that readPaste has read
Init ==
    \E session \in Sessions :
        /\ rows = session.rows
        /\ call = NoCall
        /\ codec = NoCall
        /\ original = session.paste
        /\ paste = session.paste
        /\ file = [content |-> << >>, size |-> 0, mtime |-> 0]
        /\ clock = 0
        /\ stat = [size |-> 0, mtime |-> 0]
        /\ editor = "none"
        /\ processState = "nil"
        /\ mainPc = "pasteToTemp"
        /\ pollPc = "none"
        /\ waitPc = "none"
        /\ cancelled = FALSE
        /\ poll = [polled |-> FALSE]
        /\ save = [saved |-> FALSE]
        /\ nsaves = 0
        /\ lastSaved = session.paste
        /\ result = [returned |-> FALSE]
        /\ printWriter = "os.Stdout"
        /\ printBuffer = NilPrintBuffer
        /\ inflight = NoWrite
        /\ flushes = 0
        /\ stdout = << >>
        /\ prompted = "no"
        /\ edited = "never"
        /\ tempFile = "none"

\* the process is running: no panic and no os.Exit has ended it
Alive == mainPc \notin {"panicked", "exit"}

\* fmt.Fprintf(printWriter, ...) as one step
printf(msg) ==
    IF printWriter = "printBuffer"
    THEN /\ printBuffer' = [printBuffer EXCEPT !.buf = Append(@, msg)]
         /\ stdout' = stdout
    ELSE /\ stdout' = Append(stdout, msg)
         /\ printBuffer' = printBuffer

\* pasteToTemp(paste); a failure is printed and ends the process with
\* os.Exit(1), before the deferred close and remove are registered
PasteToTemp ==
    /\ mainPc = "pasteToTemp"
    /\ \E outcome \in TempOutcomes :
          /\ tempFile' = IF outcome = "createFailed" THEN "none" ELSE "open"
          /\ IF outcome = "ok"
             THEN /\ file' = [content |-> paste.content,
                              size |-> Len(paste.content), mtime |-> 0]
                  /\ mainPc' = "start"
                  /\ UNCHANGED <<printBuffer, stdout>>
             ELSE /\ printf(TempErrorMessage)
                  /\ mainPc' = "exit"
                  /\ UNCHANGED file
    /\ UNCHANGED <<storeVars, clock, stat, paste, editor, processState, pollPc,
                   waitPc, cancelled, pollVars, result, original, printWriter,
                   inflight, flushes, prompted, edited>>

\* cmd.Start(): on failure editPaste returns the error and the deferred
\* function closes and removes the file; on success the print buffer is
\* swapped in and the polling and the waiting goroutine are launched
StartEditor ==
    /\ mainPc = "start"
    /\ \E started \in BOOLEAN :
          IF started
          THEN /\ editor' = "running"
               /\ printWriter' = "printBuffer"
               /\ printBuffer' = NewPrintBuffer
               /\ pollPc' = "start"
               /\ waitPc' = "waiting"
               /\ mainPc' = "spin"
               /\ UNCHANGED tempFile
          ELSE /\ mainPc' = "startFailed"
               /\ tempFile' = "removed"
               /\ UNCHANGED <<editor, printWriter, printBuffer, pollPc, waitPc>>
    /\ UNCHANGED <<storeVars, file, clock, stat, paste, processState, cancelled,
                   pollVars, result, original, stdout, inflight, flushes,
                   prompted, edited>>

\* the temporary file is there and watchFile's goroutine has yet to finish:
\* what happens to the file can still be seen by the session
Watched == Alive /\ tempFile = "open" /\ pollPc \notin {"none", "done"}

\* the file system's clock advances.  The clock is read only as the
\* modification time of a write, so an instant that no write has used is not
\* passed over
Tick ==
    /\ clock < MaxClock
    /\ Watched
    /\ file.mtime = clock
    /\ clock' = clock + 1
    /\ UNCHANGED <<storeVars, file, stat, paste, editor, processState, mainPc,
                   pollPc, waitPc, cancelled, pollVars, result, original,
                   printVars, inflight, flushes, prompted, edited, tempFile>>

\* the editor rewrites the file while it runs; the process a quickly exiting
\* editor left in the background does while the session waits for the key
EditorWrite ==
    /\ Watched
    /\ editor = "running" \/ mainPc = "prompt"
    /\ \E c \in EditContents :
          /\ file' = [content |-> c, size |-> Len(c), mtime |-> clock]
          /\ edited' = IF /\ edited = "never"
                          /\ editor = "running"
                          /\ c # << >>
                          /\ c # file.content
                       THEN "once"
                       ELSE "other"
    /\ UNCHANGED <<storeVars, clock, stat, paste, editor, processState, mainPc,
                   pollPc, waitPc, cancelled, pollVars, result, original,
                   printVars, inflight, flushes, prompted, tempFile>>

\* the editor process exits, with exit code 0 ("exited") or not ("failed")
EditorExit ==
    /\ editor = "running"
    /\ editor' \in {"exited", "failed"}
    /\ UNCHANGED <<storeVars, file, clock, stat, paste, processState, mainPc,
                   pollPc, waitPc, cancelled, pollVars, result, original,
                   printVars, inflight, flushes, prompted, edited, tempFile>>

\* a cmd.Wait() that returns without waiting for the process to exit
WaitReturnsEarly ==
    /\ Alive
    /\ waitPc = "waiting"
    /\ \E waited \in BOOLEAN :
          processState' = IF ~waited THEN "nil"
                          ELSE IF editor = "exited" THEN "exit0" ELSE "exit1"
    /\ waitPc' = "returned"
    /\ UNCHANGED <<storeVars, file, clock, stat, paste, editor, mainPc, pollPc,
                   cancelled, pollVars, result, original, printVars, inflight,
                   flushes, prompted, edited, tempFile>>

\* cmd.Wait() returns in the waiting goroutine.  It has set cmd.ProcessState to
\* the state of the process, unless waiting for the process failed: then the
\* state stays nil and Wait returns that error
WaitReturns ==
    /\ Alive
    /\ waitPc = "waiting"
    /\ editor \in {"exited", "failed"}
    /\ \E waited \in BOOLEAN :
          processState' = IF ~waited THEN "nil"
                          ELSE IF editor = "exited" THEN "exit0" ELSE "exit1"
    /\ waitPc' = "returned"
    /\ UNCHANGED <<storeVars, file, clock, stat, paste, editor, mainPc, pollPc,
                   cancelled, pollVars, result, original, printVars, inflight,
                   flushes, prompted, edited, tempFile>>

\* dismissPrintBuffer, first part: the test of printBuffer and the assignment
\* of printWriter.  entered tells whether the closure goes on to io.Copy.
dismissSwap(entered) ==
    /\ entered = ~printBuffer.nil
    /\ printWriter' = IF entered THEN "os.Stdout" ELSE printWriter

\* dismissPrintBuffer, second part: io.Copy(printWriter, printBuffer) writes
\* the buffered bytes out; on a printBuffer that is nil by now it panics.  The
\* buffer empties itself at the end of the copy: drained tells whether that
\* has happened when another goroutine next touches the buffer
dismissCopy(panics, drained) ==
    /\ panics = printBuffer.nil
    /\ stdout' = IF panics THEN stdout ELSE stdout \o printBuffer.buf
    /\ flushes' = IF panics THEN flushes ELSE flushes + 1
    /\ printBuffer' = IF panics \/ ~drained THEN printBuffer
                      ELSE [printBuffer EXCEPT !.buf = << >>]

\* dismissPrintBuffer, last part: printBuffer = nil
dismissReset == printBuffer' = NilPrintBuffer

\* the waiting goroutine after cmd.Wait(): the report of its error, then the
\* deferred dismissPrintBuffer up to the assignment of printWriter
WaitFinish ==
    /\ Alive
    /\ waitPc = "returned"
    /\ \E entered \in BOOLEAN :
          /\ dismissSwap(entered)
          /\ waitPc' = IF entered THEN "copy" ELSE "done"
    /\ IF processState # "exit0"
       THEN printf(WaitErrorMessage)
       ELSE UNCHANGED <<printBuffer, stdout>>
    /\ UNCHANGED <<storeVars, file, clock, stat, paste, editor, processState,
                   mainPc, pollPc, cancelled, pollVars, result, original,
                   inflight, flushes, prompted, edited, tempFile>>

\* the waiting goroutine's io.Copy
WaitCopy ==
    /\ Alive
    /\ waitPc = "copy"
    /\ \E panics, drained \in BOOLEAN :
          /\ dismissCopy(panics, drained)
          /\ waitPc' = IF panics THEN "done" ELSE "reset"
          /\ mainPc' = IF panics THEN "panicked" ELSE mainPc
    /\ UNCHANGED <<storeVars, file, clock, stat, paste, editor, processState,
                   pollPc, cancelled, pollVars, result, original, printWriter,
                   inflight, prompted, edited, tempFile>>

\* the waiting goroutine's printBuffer = nil
WaitReset ==
    /\ Alive
    /\ waitPc = "reset"
    /\ dismissReset
    /\ waitPc' = "done"
    /\ UNCHANGED <<storeVars, file, clock, stat, paste, editor, processState,
                   mainPc, pollPc, cancelled, pollVars, result, original,
                   printWriter, stdout, inflight, flushes, prompted, edited,
                   tempFile>>

\* watchFile's goroutine takes its first snapshot
PollStart ==
    /\ Alive
    /\ pollPc = "start"
    /\ stat' = FileStat
    /\ pollPc' = "polling"
    /\ UNCHANGED <<storeVars, file, clock, paste, editor, processState, mainPc,
                   waitPc, cancelled, pollVars, result, original, printVars,
                   inflight, flushes, prompted, edited, tempFile>>

\* the condition under which execChangeHandlerIfFileChanged goes on to the handler
FileChanged(actualStat, snapshot) ==
    ~(\/ actualStat.size = 0
      \/ actualStat.size = snapshot.size
      \/ actualStat.mtime = snapshot.mtime)

\* the change handler editPaste passes to watchFile: seek to the start, Write
\* the file with WithPreviousPaste(paste), assign the result to paste, and
\* enter printf with the error or the new locator: printWriter is loaded
ChangeHandler(net) ==
    \E w \in {Write(<< >>, file.content, << WithPreviousPaste(paste) >>, net)} :
        /\ paste' = w.paste
        /\ rows' = IF w.record = NoRecord THEN rows ELSE InsertRows(rows, w.record, net)
        /\ save' = [saved |-> TRUE, err |-> w.err, record |-> w.record,
                    content |-> file.content, current |-> lastSaved,
                    given |-> paste]
        /\ nsaves' = nsaves + 1
        /\ lastSaved' = IF w.err = NoErr THEN w.paste ELSE lastSaved
        /\ inflight' = [none |-> FALSE, writer |-> printWriter,
                        msg |-> IF w.err = NoErr THEN URLMessage(nsaves + 1)
                                ELSE ErrorMessage(nsaves + 1)]

\* execChangeHandlerIfFileChanged up to the handler's printf
ExecChangeHandlerIfFileChanged ==
    LET actualStat == FileStat
        afterFailure == save.saved /\ save.err # NoErr
    IN  IF FileChanged(actualStat, stat)
        THEN /\ stat' = actualStat
             /\ \E net \in SaveNets : ChangeHandler(net)
             /\ poll' = [polled |-> TRUE, actual |-> actualStat, snapshot |-> stat,
                         saved |-> TRUE, afterFailure |-> afterFailure,
                         file |-> tempFile]
             /\ pollPc' = IF cancelled THEN "printLast" ELSE "print"
        ELSE /\ poll' = [polled |-> TRUE, actual |-> actualStat, snapshot |-> stat,
                         saved |-> FALSE, afterFailure |-> afterFailure,
                         file |-> tempFile]
             /\ pollPc' = IF cancelled THEN "done" ELSE "polling"
             /\ UNCHANGED <<stat, paste, rows, save, nsaves, lastSaved, inflight>>

\* a watchFile that runs the change handler in a goroutine of its own
PollIterationAsync ==
    /\ Alive
    /\ pollPc \in {"polling", "print"}
    /\ ExecChangeHandlerIfFileChanged
    /\ UNCHANGED <<call, codec, file, clock, editor, processState, mainPc, waitPc,
                   cancelled, result, original, printVars, flushes, prompted,
                   edited, tempFile>>

\* one turn of watchFile's loop: the select on ctx.Done(), the check, and the
\* handler up to its printf
PollIteration ==
    /\ Alive
    /\ pollPc = "polling"
    /\ ExecChangeHandlerIfFileChanged
    /\ UNCHANGED <<call, codec, file, clock, editor, processState, mainPc, waitPc,
                   cancelled, result, original, printVars, flushes, prompted,
                   edited, tempFile>>

\* the handler's printf writes to the writer it loaded; bytes written to a
\* buffer that has been dismissed go nowhere.  Then the loop goes on, or after
\* a cancellation done is closed
PollPrint ==
    /\ Alive
    /\ pollPc \in {"print", "printLast"}
    /\ IF inflight.writer = "os.Stdout"
       THEN /\ stdout' = Append(stdout, inflight.msg)
            /\ UNCHANGED printBuffer
       ELSE /\ printBuffer' = IF printBuffer.nil THEN printBuffer
                              ELSE [printBuffer EXCEPT !.buf = Append(@, inflight.msg)]
            /\ UNCHANGED stdout
    /\ inflight' = NoWrite
    /\ pollPc' = IF pollPc = "printLast" THEN "done" ELSE "polling"
    /\ UNCHANGED <<storeVars, file, clock, stat, paste, editor, processState,
                   mainPc, waitPc, cancelled, pollVars, result, original,
                   printWriter, flushes, prompted, edited, tempFile>>

\* the main flow's loop sees cmd.ProcessState set; the exit was quick when the
\* exit code is 0 and less than a second has passed since the launch
ObserveExit ==
    /\ mainPc = "spin"
    /\ processState # "nil"
    /\ \E quick \in {q \in BOOLEAN : q => processState = "exit0"} :
          /\ mainPc' = IF quick THEN "dismiss" ELSE "cancel"
          /\ prompted' = IF quick THEN "pending" ELSE prompted
    /\ UNCHANGED <<storeVars, file, clock, stat, paste, editor, processState,
                   pollPc, waitPc, cancelled, pollVars, result, original,
                   printVars, inflight, flushes, edited, tempFile>>

\* after a quick exit: dismissPrintBuffer() up to the assignment of printWriter
QuickExitDismiss ==
    /\ mainPc = "dismiss"
    /\ \E entered \in BOOLEAN :
          /\ dismissSwap(entered)
          /\ mainPc' = IF entered THEN "copy" ELSE "printPrompt"
    /\ UNCHANGED <<storeVars, file, clock, stat, paste, editor, processState,
                   pollPc, waitPc, cancelled, pollVars, result, original,
                   printBuffer, stdout, inflight, flushes, prompted, edited,
                   tempFile>>

\* after a quick exit: the io.Copy of dismissPrintBuffer()
QuickExitCopy ==
    /\ mainPc = "copy"
    /\ \E panics, drained \in BOOLEAN :
          /\ dismissCopy(panics, drained)
          /\ mainPc' = IF panics THEN "panicked" ELSE "reset"
    /\ UNCHANGED <<storeVars, file, clock, stat, paste, editor, processState,
                   pollPc, waitPc, cancelled, pollVars, result, original,
                   printWriter, inflight, prompted, edited, tempFile>>

\* after a quick exit: printBuffer = nil
QuickExitReset ==
    /\ mainPc = "reset"
    /\ dismissReset
    /\ mainPc' = "printPrompt"
    /\ UNCHANGED <<storeVars, file, clock, stat, paste, editor, processState,
                   pollPc, waitPc, cancelled, pollVars, result, original,
                   printWriter, stdout, inflight, flushes, prompted, edited,
                   tempFile>>

\* after a quick exit: the prompt is printed and os.Stdin.Read is entered
Prompt ==
    /\ mainPc = "printPrompt"
    /\ printf(PromptMessage)
    /\ mainPc' = "prompt"
    /\ UNCHANGED <<storeVars, file, clock, stat, paste, editor, processState,
                   pollPc, waitPc, cancelled, pollVars, result, original,
                   printWriter, inflight, flushes, prompted, edited, tempFile>>

\* os.Stdin.Read returns
KeyPress ==
    /\ mainPc = "prompt"
    /\ mainPc' = "cancel"
    /\ prompted' = "pressed"
    /\ UNCHANGED <<storeVars, file, clock, stat, paste, editor, processState,
                   pollPc, waitPc, cancelled, pollVars, result, original,
                   printVars, inflight, flushes, edited, tempFile>>

\* a main flow that cancels without waiting for the key
CancelWithoutKeyPress ==
    /\ mainPc \in {"cancel", "prompt"}
    /\ cancelled' = TRUE
    /\ mainPc' = "waitDone"
    /\ UNCHANGED <<storeVars, file, clock, stat, paste, editor, processState,
                   pollPc, waitPc, pollVars, result, original, printVars,
                   inflight, flushes, prompted, edited, tempFile>>

\* cancelFileWatch()
CancelFileWatch ==
    /\ mainPc = "cancel"
    /\ cancelled' = TRUE
    /\ mainPc' = "waitDone"
    /\ UNCHANGED <<storeVars, file, clock, stat, paste, editor, processState,
                   pollPc, waitPc, pollVars, result, original, printVars,
                   inflight, flushes, prompted, edited, tempFile>>

\* a return that does not wait for fileWatchDone
ReturnWithoutWait ==
    /\ mainPc = "waitDone"
    /\ result' = [returned |-> TRUE, paste |-> paste]
    /\ tempFile' = "removed"
    /\ mainPc' = "returned"
    /\ UNCHANGED <<storeVars, file, clock, stat, paste, editor, processState,
                   pollPc, waitPc, cancelled, pollVars, original, printVars,
                   inflight, flushes, prompted, edited>>

\* <-fileWatchDone; return paste, nil; the deferred function closes and removes
\* the temporary file
Return ==
    /\ mainPc = "waitDone"
    /\ pollPc = "done"
    /\ result' = [returned |-> TRUE, paste |-> paste]
    /\ tempFile' = "removed"
    /\ mainPc' = "returned"
    /\ UNCHANGED <<storeVars, file, clock, stat, paste, editor, processState,
                   pollPc, waitPc, cancelled, pollVars, original, printVars,
                   inflight, flushes, prompted, edited>>

Next ==
    \/ PasteToTemp
    \/ StartEditor
    \/ Tick
    \/ EditorWrite
    \/ EditorExit
    \/ WaitReturns
    \/ WaitFinish
    \/ WaitCopy
    \/ WaitReset
    \/ PollStart
    \/ PollIteration
    \/ PollPrint
    \/ ObserveExit
    \/ QuickExitDismiss
    \/ QuickExitCopy
    \/ QuickExitReset
    \/ Prompt
    \/ KeyPress
    \/ CancelFileWatch
    \/ Return

Spec == Init /\ [][Next]_vars

(***************************************************************************)
(* Claims about the edit session: C1, C2, C3.                              *)
(***************************************************************************)
\* C1: a poll triggers a save exactly when the file's size is not zero and its
\* size or its modification time differs from the last observed snapshot
C1_SaveOnSizeOrMtimeChange ==
    poll.polled =>
        (poll.saved <=>
            /\ poll.actual.size # 0
            /\ \/ poll.actual.size # poll.snapshot.size
               \/ poll.actual.mtime # poll.snapshot.mtime)

\* C2: every save is written with the previous hash and previous fingerprint of
\* the session's current paste: the paste the session started with until a
\* save succeeds, the result of the most recent successful save afterwards
C2_SaveChainsToCurrentPaste ==
    (save.saved /\ save.record # NoRecord) =>
        /\ save.record.prev_hash_hex = HexEncode(save.current.Hash)
        /\ save.record.prev_fingerprint_hex = HexEncode(save.current.Fingerprint)

\* C3: editPaste returns the result of the most recent successful save, or the
\* original paste when no save succeeded; never a nil paste
C3_ReturnsLastSavedOrOriginal ==
    result.returned =>
        /\ result.paste # NilPaste
        /\ result.paste = lastSaved

(***************************************************************************)
(* Claims about the edit session: C11, C12, C13, C19, C20.                 *)
(***************************************************************************)
\* the messages printed so far, buffered or delivered
Printed == stdout \o printBuffer.buf

\* C11: a failed save is reported (once its printf has written, the error is in
\* the buffer that no one has dismissed yet, or on the real stream) and does
\* not end the session: the polling goroutine stops only on cancellation, and
\* a poll after the failure that finds the file non-empty with a size or
\* modification time that differs from the snapshot saves it
C11_FailedSaveSessionContinues ==
    /\ (save.saved /\ save.err # NoErr) =>
          /\ (inflight = NoWrite /\ flushes = 0 /\ ~printBuffer.nil) =>
                \E i \in 1..Len(Printed) : Printed[i] = ErrorMessage(nsaves)
          /\ pollPc = "done" => cancelled
    /\ (poll.polled /\ poll.afterFailure) =>
          ((/\ poll.actual.size # 0
            /\ \/ poll.actual.size # poll.snapshot.size
               \/ poll.actual.mtime # poll.snapshot.mtime) => poll.saved)

\* C12: when the editor rewrote the file exactly once, to new non-empty content,
\* and then exited, the session that returns performed exactly one save and
\* returns a paste whose previous hash is the original paste's hash
C12_OneRewriteOneSave ==
    (result.returned /\ edited = "once") =>
        /\ nsaves = 1
        /\ result.paste # NilPaste
        /\ result.paste.PreviousHash = original.Hash

\* C13 (as stated): after a quick successful exit, until the key is pressed the
\* buffered output is not dismissed and the session has not returned
C13_KeyPressBeforeDismiss ==
    prompted = "pending" => (~printBuffer.nil /\ ~result.returned)

\* C13: after a quick successful exit the session dismisses the buffered
\* output and prints the prompt to the real stream before it waits for the key,
\* and until the key is pressed it neither cancels the polling goroutine nor
\* returns
C13_DismissPromptThenKeyPress ==
    /\ prompted = "pending" =>
          (~cancelled /\ pollPc # "done" /\ ~result.returned)
    /\ mainPc = "prompt" =>
          /\ printBuffer.nil
          /\ printWriter = "os.Stdout"
          /\ \E i \in 1..Len(stdout) : stdout[i] = PromptMessage
    /\ result.returned => prompted # "pending"

\* a session that saw a quick exit, waited for the key and returned
C13_Witness ==
    /\ result.returned
    /\ prompted = "pressed"
    /\ editor = "exited"

\* C19: in a session that started from an encrypted paste every save sends the
\* cipher text of the file under the session's key, flagged as encrypted
C19_EncryptedSessionSendsCipherText ==
    (save.saved /\ save.record # NoRecord /\ original.Key # Nil /\ original.Key # << >>) =>
        /\ save.record.is_encrypted
        /\ save.record.content =
              JSONString(Base64Encode(XORKeyStream(original.Key, save.content)))

\* C20: a save whose previous paste is the paste read from a locator without a
\* key is sent as an unencrypted write chained to that paste, and fails only
\* when the request does
C20_KeylessPreviousPasteWrites ==
    (save.saved /\ save.given = original /\ original.Key \in {Nil, << >>}) =>
        /\ save.err \in {NoErr, ErrTransport}
        /\ save.record # NoRecord
        /\ ~save.record.is_encrypted
        /\ save.record.prev_hash_hex = HexEncode(original.Hash)
        /\ save.record.prev_fingerprint_hex = HexEncode(original.Fingerprint)

(***************************************************************************)
(* Claims about the requests, the select and the output of a read: C14,    *)
(* C15, C16, C18.                                                          *)
(***************************************************************************)
\* the last call sent a request and got a response
GotResponse ==
    /\ call.op \in {"Read", "Write"}
    /\ call.net # "transport"
    /\ \/ call.op = "Write" /\ call.record # NoRecord
       \/ call.op = "Read" /\ LocatorMatch(call.url).err = NoErr

\* the status of the response the last call got
ResponseStatus ==
    IF call.op = "Write" THEN InsertStatus(call.record, call.net)
    ELSE SelectStatus(call.net)

\* C14: a response without the request-identifier header makes Read and Write
\* fail with ErrInvalidURL and return no paste, whatever the status
C14_NoQueryIDInvalidLocator ==
    (GotResponse /\ call.net \in NoQueryIDNets) =>
        (call.err = ErrInvalidURL /\ call.paste = NilPaste)

\* a Write whose response had status 200 but no header was refused
C14_Witness ==
    /\ GotResponse /\ call.op = "Write" /\ call.net = "noQueryID"
    /\ ResponseStatus = 200
    /\ call.err = ErrInvalidURL

\* a Read whose response had status 503 and no header was refused
C14_UnavailableSeen ==
    /\ GotResponse /\ call.op = "Read" /\ call.net = "unavailableNoQueryID"
    /\ ResponseStatus = 503
    /\ call.err = ErrInvalidURL

\* C15 (as stated): every response with a status other than 200 makes the call
\* fail with an error that carries the status code and the whole response body
C15_AnyStatusErrorCarriesBody ==
    (GotResponse /\ ResponseStatus # 200) =>
        /\ call.err # NoErr
        /\ call.detail # NoDetail
        /\ call.detail.code = ResponseStatus
        /\ call.detail.response = ResponseBody(ResponseStatus)

\* C15: a response that has the request-identifier header and a status other
\* than 200 makes the call fail with an error that carries the status code and
\* the response body as far as it was read: the whole body unless the read broke
C15_StatusErrorCarriesBody ==
    (GotResponse /\ call.net \notin NoQueryIDNets /\ ResponseStatus # 200) =>
        /\ call.err = ErrStatus
        /\ call.paste = NilPaste
        /\ call.detail # NoDetail
        /\ call.detail.code = ResponseStatus
        /\ call.detail.response = ReadFrom(call.net, ResponseBody(ResponseStatus))
        /\ call.net # "bodyCut" =>
              call.detail.response = ResponseBody(ResponseStatus)

\* a Read was answered 503 with the header, and its error has the code and body
C15_Witness ==
    /\ GotResponse /\ call.op = "Read" /\ call.net = "unavailable"
    /\ call.err = ErrStatus
    /\ call.detail.code = 503
    /\ call.detail.response = ResponseBody(503)

\* a Write was answered 500 by the table's constraint
C15_ConstraintSeen ==
    /\ GotResponse /\ call.op = "Write" /\ call.net = "ok"
    /\ call.err = ErrStatus
    /\ call.detail.code = 500

\* the rows of the table under the locator's fingerprint and hash, oldest first
Matching(url) ==
    LET fp == Reinterpret(CHUnhex(LocatorMatch(url).fingerprintHex), 4)
        h  == Reinterpret(CHUnhex(LocatorMatch(url).hashHex), 16)
    IN  SelectSeq(rows, LAMBDA r : r.fingerprint = fp /\ r.hash = h)

\* the last call was a Read that the backend answered while holding several
\* rows under the locator
ReadOfSeveral ==
    /\ call.op = "Read" /\ call.net = "ok"
    /\ LocatorMatch(call.url).err = NoErr
    /\ Len(Matching(call.url)) >= 2

\* the outcome of the last call
Outcome == [err |-> call.err, paste |-> call.paste]

\* C16 (as stated): of several rows with the locator's fingerprint and hash,
\* Read returns the most recently inserted
C16_MostRecentRow ==
    ReadOfSeveral =>
        Outcome = ReadRow(call.url, LocatorMatch(call.url),
                          Matching(call.url)[Len(Matching(call.url))])

\* C16: of several rows with the locator's fingerprint and hash, Read returns
\* the one inserted first
C16_OldestRow ==
    ReadOfSeveral =>
        Outcome = ReadRow(call.url, LocatorMatch(call.url), Matching(call.url)[1])

\* a Read answered from the older, unencrypted row while a newer, encrypted row
\* has the same fingerprint and hash
C16_Witness ==
    /\ ReadOfSeveral
    /\ ~Matching(call.url)[1].is_encrypted
    /\ Matching(call.url)[Len(Matching(call.url))].is_encrypted
    /\ call.err = NoErr
    /\ call.paste.content = Base64LookingContent

\* C18: a read writes only the paste's content to standard output; the error
\* of a failed read goes to standard error
C18_OnlyContentOnStdout ==
    call.op = "Read" =>
        /\ \A i \in 1..Len(call.out.stdout) : call.out.stdout[i].kind = "content"
        /\ call.err # NoErr =>
              \E i \in 1..Len(call.out.stderr) : call.out.stderr[i].kind = "error"

(***************************************************************************)
(* The options specification: Service.Write called with a list of options. *)
(***************************************************************************)
\* how many options a call passes
MaxOptions == 2

\* bytes.Repeat([]byte{0x03}, 24), an AES-192 key
Key24 == Repeat(3, 24)

\* the paste a Write of "Hey" under `key` returned
WrittenPaste(key) == Write(<< >>, << 72, 101, 121 >>, << WithKey(key) >>, "ok").paste

\* the pastes given to WithPreviousPaste: nil, written without a key, written
\* with a key, and the pastes read from a locator without and with a key
PreviousPastes ==
    {NilPaste, WrittenPaste(Nil), WrittenPaste(Key24)}
        \cup {session.paste : session \in Sessions}

Options ==
    {WithKey(k) : k \in WriteKeys} \cup {WithPreviousPaste(p) : p \in PreviousPastes}

OptionLists == UNION {[1..n -> Options] : n \in 0..MaxOptions}

InitOptions ==
    /\ rows = << >>
    /\ call \in {[op |-> "WriteArgs", input |-> TextContent, opt |-> opt] :
                    opt \in OptionLists}
    /\ codec = NoCall
    /\ EditIdle

\* service.Write(input, opt...)
WriteWithOptions ==
    /\ call.op = "WriteArgs"
    /\ \E w \in {Write(<< >>, call.input, call.opt, "ok")} :
          /\ call' = [op |-> "WriteOptions", input |-> call.input, opt |-> call.opt,
                      err |-> w.err, paste |-> w.paste, record |-> w.record]
          /\ rows' = IF w.record = NoRecord THEN rows
                     ELSE InsertRows(rows, w.record, "ok")
    /\ UNCHANGED <<codec, editVars>>

NextOptions == WriteWithOptions

SpecOptions == InitOptions /\ [][NextOptions]_vars

(***************************************************************************)
(* Claim about the options: C17.                                           *)
(***************************************************************************)
\* the positions of the options that set the key: every WithKey and every
\* WithPreviousPaste of a paste that is not nil
KeySetters(opt) ==
    {i \in 1..Len(opt) : opt[i].option = "WithKey" \/ opt[i].p # NilPaste}

\* the positions of the WithPreviousPaste options of a paste that is not nil
PreviousSetters(opt) ==
    {i \in 1..Len(opt) : opt[i].option = "WithPreviousPaste" /\ opt[i].p # NilPaste}

Last(S) == CHOOSE i \in S : \A j \in S : j <= i

\* the key the last option that sets one gives, nil when none does
LastKey(opt) ==
    IF KeySetters(opt) = {} THEN Nil
    ELSE LET o == opt[Last(KeySetters(opt))]
         IN  IF o.option = "WithKey" THEN o.key ELSE o.p.Key

\* the paste of the last WithPreviousPaste that is not nil
LastPrevious(opt) ==
    IF PreviousSetters(opt) = {} THEN [Hash |-> Nil, Fingerprint |-> Nil]
    ELSE opt[Last(PreviousSetters(opt))].p

\* C17: the options take effect in call order and the last one to set a field
\* wins: the key Write uses is that of the last WithKey or WithPreviousPaste of
\* a paste, the previous hash and fingerprint are those of the last such paste,
\* and WithPreviousPaste(nil) changes nothing
C17_OptionsInCallOrder ==
    call.op = "WriteOptions" =>
        IF LastKey(call.opt) # Nil /\ WrongSize(LastKey(call.opt))
        THEN call.err = ErrInvalidKey /\ call.record = NoRecord
        ELSE /\ call.err = NoErr
             /\ call.paste.Key = LastKey(call.opt)
             /\ call.record.is_encrypted = (LastKey(call.opt) # Nil)
             /\ call.record.content = JSONString(WriteContent(call.input, LastKey(call.opt)))
             /\ call.paste.PreviousHash = LastPrevious(call.opt).Hash
             /\ call.paste.PreviousFingerprint = LastPrevious(call.opt).Fingerprint

\* WithKey(k) then WithPreviousPaste(p): the write used p's key
C17_Witness ==
    /\ call.op = "WriteOptions"
    /\ call.opt = << WithKey(Key16), WithPreviousPaste(WrittenPaste(Key24)) >>
    /\ call.err = NoErr
    /\ call.paste.Key = Key24

\* WithPreviousPaste(p) then WithKey(k): the write used k
C17_KeyOverridesSeen ==
    /\ call.op = "WriteOptions"
    /\ call.opt = << WithPreviousPaste(WrittenPaste(Key24)), WithKey(Key16) >>
    /\ call.err = NoErr
    /\ call.paste.Key = Key16
    /\ call.paste.PreviousHash = WrittenPaste(Key24).Hash

\* WithKey(k) then WithPreviousPaste(nil): the write used k and chained to nothing
C17_NilPreviousSeen ==
    /\ call.op = "WriteOptions"
    /\ call.opt = << WithKey(Key16), WithPreviousPaste(NilPaste) >>
    /\ call.err = NoErr
    /\ call.paste.Key = Key16
    /\ call.paste.PreviousHash = Nil

(***************************************************************************)
(* Claims about the print buffer, the temporary file and the goroutines of *)
(* the edit session: C21, C22, C23, C24, C25, C28, C29                     *)
(***************************************************************************)

\* C21: while a printf of the polling goroutine is under way (it has loaded
\* printWriter and has yet to write), no step assigns printWriter and no step
\* copies the print buffer out
C21_SwapSerializedAgainstPollerWrites ==
    [][inflight # NoWrite =>
          (printWriter' = printWriter /\ flushes' = flushes)]_vars

\* the places of stdout that hold the message (locator or error) of save n
Delivered(n) ==
    {i \in 1..Len(stdout) : stdout[i].kind \in {"url", "error"} /\ stdout[i].n = n}

\* C22: the print buffer is copied out at most once, and when editPaste has
\* returned the message of every save of the session is on the real output
\* stream exactly once
C22_EveryMessageDeliveredOnce ==
    /\ flushes <= 1
    /\ result.returned =>
          \A n \in 1..nsaves : Cardinality(Delivered(n)) = 1

C24_SavesStrictlySequential ==
    [][/\ nsaves' # nsaves =>
             (pollPc = "polling" /\ inflight = NoWrite /\ nsaves' = nsaves + 1)
       /\ inflight # NoWrite =>
             (stat' = stat /\ poll' = poll /\ nsaves' = nsaves /\ paste' = paste)
       /\ paste' # paste =>
             (pollPc = "polling" /\ nsaves' = nsaves + 1 /\ ~result.returned)]_vars

\* the second save of a session is under way
C24_Witness ==
    /\ nsaves = 2
    /\ inflight # NoWrite
    /\ pollPc = "print"

\* C25: while the editor process runs, printWriter is the print buffer, the
\* buffer has not been dismissed or copied out, and nothing has reached the
\* real output stream
C25_NoFlushWhileEditorRuns ==
    editor = "running" =>
        /\ printWriter = "printBuffer"
        /\ ~printBuffer.nil
        /\ flushes = 0
        /\ stdout = << >>
        /\ waitPc = "waiting"
        /\ mainPc = "spin"

\* the editor has exited, the buffer has been copied out once, and the
\* message of the first save is on the real output stream
C25_Witness ==
    /\ editor \in {"exited", "failed"}
    /\ flushes = 1
    /\ Delivered(1) # {}

\* editPaste is over: it returned (with the paste, or with the error of
\* cmd.Start), or the process ended in os.Exit or in a panic
SessionEnded == mainPc \in {"returned", "startFailed", "exit", "panicked"}

\* C28: when the session is over and its temporary file was created, the file
\* has been closed and removed
C28_TempFileRemovedAtEnd ==
    SessionEnded => tempFile \in {"none", "removed"}

\* C29: once the editor process has terminated the session stays on its way
\* to the return: the process has not died in a panic, and when cmd.Wait() has
\* returned, with or without an error, the main flow's loop finds the process
\* state it spins for
C29_SessionTerminatesAfterEditorExit ==
    editor \in {"exited", "failed"} =>
        /\ mainPc # "panicked"
        /\ waitPc # "waiting" => processState # "nil"

(***************************************************************************)
(* Claim about the keys of the saves of an edit session: C26               *)
(***************************************************************************)

\* the save sent an encrypted record; its key is the key of the paste that
\* was given to WithPreviousPaste
Encrypts(s) ==
    /\ s.saved
    /\ s.record # NoRecord
    /\ s.record.is_encrypted

\* C26: within one run a key encrypts one plaintext only: when a save follows
\* a save and both encrypt with the same key, the two have the same content
C26_KeyEncryptsOnePlaintext ==
    [][(/\ nsaves' = nsaves + 1
        /\ Encrypts(save)
        /\ Encrypts(save')
        /\ save'.given.Key = save.given.Key) => save'.content = save.content]_vars

(***************************************************************************)
(* Claim about the locator a Write returns: C30                            *)
(***************************************************************************)

\* what follows the first '#' of a locator, Nil when it has none
KeySegment(url) ==
    LET at == {i \in 1..Len(url) : url[i] = 35}
    IN  IF at = {} THEN Nil ELSE SubSeq(url, Min(at) + 1, Len(url))

\* C30: the locator of a successful Write has a '#' segment exactly when the
\* record sent is flagged encrypted; the segment then is the base64 of a key,
\* the key passed to Write, and the content sent is the base64 of the input
\* encrypted under the key the segment decodes to
C30_LocatorKeyIffEncrypted ==
    (call.op = "Write" /\ call.err = NoErr) =>
        LET segment == KeySegment(call.paste.URL)
        IN  /\ (segment # Nil) <=> call.record.is_encrypted
            /\ call.record.is_encrypted =>
                  /\ Base64Decode(segment).err = NoErr
                  /\ Base64Decode(segment).bytes = call.key
                  /\ call.record.content =
                        JSONString(Base64Encode(
                            XORKeyStream(Base64Decode(segment).bytes, call.input)))

\* a successful Write of the text under the 16-byte key
C30_Witness ==
    /\ call.op = "Write"
    /\ call.err = NoErr
    /\ call.key = Key16
    /\ call.record.is_encrypted
    /\ KeySegment(call.paste.URL) = Base64Encode(Key16)

\* a successful Write without a key: no segment, no flag
C30_PlainSeen ==
    /\ call.op = "Write"
    /\ call.err = NoErr
    /\ call.key = Nil
    /\ KeySegment(call.paste.URL) = Nil


(***************************************************************************)
(* Read of the streaming revision, pkg/pastila/service.go, and the caller  *)
(* of it in cmd/pastila/main.go: what becomes of the response body.        *)
(***************************************************************************)
ErrBodyRead == "failed to read ClickHouse response"   \* res.Body.Read failed

\* what the transport and the server do to the select request: as Nets, and a
\* 200 response whose body breaks at its first read, or after its first bytes
StreamNets == {"ok", "transport", "noQueryID", "unavailable", "readFailed", "bodyCut200"}

\* the row the streaming Write sends with FORMAT Raw: the content is the input
\* or the raw cipher text
StreamRecord(b, key) ==
    LET content == WriteContentUnencoded(b, key)
    IN  [is_encrypted         |-> key # Nil,
         content              |-> content,
         hash_hex             |-> HexEncode(SipHash128(content)),
         fingerprint_hex      |-> HexEncode(Repeat(255, 4)),
         prev_hash_hex        |-> << >>,
         prev_fingerprint_hex |-> << >>]

\* the records the backend may hold: text and one byte written without a key,
\* text written under the 16-byte key by the streaming Write, and text whose
\* encrypted content is stored as base64
StreamRecords ==
    {StreamRecord(TextContent, Nil), StreamRecord(BinaryContent, Nil),
     StreamRecord(TextContent, Key16),
     InsertRecord(TextContent, [ZeroOptions EXCEPT !.key = Key16])}

\* the backend: empty, or holding one of the records
StreamTables == {<< >>} \cup {<< StoredRow(rec) >> : rec \in StreamRecords}

\* a locator whose hash has an odd number of hex digits and still selects the
\* row of hash h, when the first byte of h is below 16
OddHashLocator(h) ==
    chURL \o << 63 >> \o HexEncode(Repeat(255, 4)) \o << 47, HexDigit(h[1] % 16) >>
          \o HexEncode(SubSeq(h, 2, 16)) \o << 48, 48 >>

\* the locators the streaming Read is given
StreamURLs ==
    UNION {{BuildURL(<< >>, Repeat(255, 4), CHUnhex(rec.hash_hex), k) :
               k \in {Nil, Key16, Key3}} : rec \in StreamRecords}
    \cup {OddHashLocator(SipHash128(BinaryContent)), InvalidPathURL}

\* Read returns before a response was received
NoResponse(err) ==
    [err |-> err, received |-> FALSE, closed |-> 0, handed |-> FALSE, content |-> Nil]

\* Read returns an error after a response was received, having closed the
\* body `closed` times
FailedStream(err, closed) ==
    [err |-> err, received |-> TRUE, closed |-> closed, handed |-> FALSE,
     content |-> Nil]

\* Service.Read(url) of the streaming revision: the error, whether a response
\* was received, how many times its body was closed before Read returned,
\* whether the body is handed to the caller as the paste's ReadCloser, and the
\* content the paste reads to
ReadStreaming(url, table, net) ==
    LET matches == FindSubmatch(url, FALSE)
        key == Base64Decode(matches.m3)
        requestErr == ExecuteRequest(net, SelectStatus(net))
        hits == SelectRows(table, matches.m1, matches.m2)
        fingerprint == HexDecode(matches.m1)
        hash == HexDecode(matches.m2)
        ciphertext == Base64Decode(hits[1].content)
    IN  IF ~matches.matched THEN NoResponse(ErrInvalidURL)
        ELSE IF key.err # NoErr THEN NoResponse(ErrInvalidKey)
        ELSE IF requestErr = ErrTransport THEN NoResponse(ErrTransport)
        ELSE IF requestErr # NoErr THEN FailedStream(requestErr, 1)
        ELSE IF net = "readFailed" THEN FailedStream(ErrBodyRead, 0)
        ELSE IF hits = << >> THEN FailedStream(ErrNotFound, 0)
        ELSE IF fingerprint.err # NoErr \/ hash.err # NoErr
        THEN FailedStream(ErrHexDecode, 0)
        ELSE IF ~hits[1].is_encrypted
        THEN [err |-> NoErr, received |-> TRUE, closed |-> 0, handed |-> TRUE,
              content |-> hits[1].content]
        ELSE IF Len(key.bytes) = 0 THEN FailedStream(ErrKeyRequired, 1)
        ELSE IF ~NewCipherOK(key.bytes) THEN FailedStream(ErrInvalidKey, 1)
        ELSE IF net = "bodyCut200" \/ ciphertext.err # NoErr
        THEN FailedStream(ErrInvalidKey, 1)
        ELSE [err |-> NoErr, received |-> TRUE, closed |-> 1, handed |-> FALSE,
              content |-> XORKeyStream(key.bytes, ciphertext.bytes)]

InitStream ==
    /\ rows \in StreamTables
    /\ call \in {[op |-> "StreamArgs", url |-> url, net |-> net] :
                    url \in StreamURLs, net \in StreamNets}
    /\ codec = NoCall
    /\ EditIdle

\* service.Read(urlToRead)
StreamRead ==
    /\ call.op = "StreamArgs"
    /\ \E r \in {ReadStreaming(call.url, rows, call.net)} :
          call' = [op |-> "StreamRead", url |-> call.url, net |-> call.net,
                   err |-> r.err, received |-> r.received, closed |-> r.closed,
                   handed |-> r.handed, content |-> r.content]
    /\ UNCHANGED <<rows, codec, editVars>>

\* main after service.Read: os.Exit(1) on an error; otherwise the paste is
\* copied to the output and the deferred paste.Close() runs when main returns,
\* unless the copy fails and main ends in os.Exit(1)
CallerClose ==
    /\ call.op = "StreamRead"
    /\ call' = [call EXCEPT
                  !.op = "StreamDone",
                  !.closed = IF /\ call.err = NoErr
                                /\ call.handed
                                /\ call.net # "bodyCut200"
                             THEN @ + 1 ELSE @]
    /\ UNCHANGED <<rows, codec, editVars>>

NextStream == StreamRead \/ CallerClose

SpecStream == InitStream /\ [][NextStream]_vars

\* C27: once a response was received, Read has closed its body once when it
\* returns an error or the decrypted paste, and has handed it over unclosed
\* when it returns the unencrypted paste; when the caller is done with the
\* paste the body has been closed exactly once
C27_BodyClosedExactlyOnce ==
    (call.op \in {"StreamRead", "StreamDone"} /\ call.received) =>
        /\ call.op = "StreamRead" =>
              IF call.handed THEN call.closed = 0 ELSE call.closed = 1
        /\ call.op = "StreamDone" => call.closed = 1

=============================================================================
